---- MODULE Spec2Model ----
(***************************************************************************)
(* Remote index discovery of dune-istl (istl/remoteindices.hh).            *)
(*                                                                         *)
(* Every MPI process owns one RemoteIndices object over two index sets     *)
(* (source_ and dest_, possibly the same object).  rebuild() runs          *)
(* buildRemote(): the published index pairs of every process travel round  *)
(* a ring of synchronous sends and blocking receives, and every process    *)
(* matches each buffer it receives against its own published pairs.        *)
(*                                                                         *)
(* One action is one blocking MPI call returning, together with the local  *)
(* code that runs until the process blocks in the next MPI call.           *)
(***************************************************************************)
EXTENDS Integers, Sequences, FiniteSets, TLC

\* ------------------------------------------------------------------ bounds
MaxProcs == 3          \* communicator sizes 1..MaxProcs
MaxGlobal == 2         \* global indices 1..MaxGlobal
MaxPairs == 4          \* Spec: index pairs in all index sets of all processes
MaxPrivate == 0        \* Spec: index pairs with isPublic = false
LifePairs == 2         \* LifeSpec: index pairs in all index sets
LifePrivate == 0       \* LifeSpec: index pairs with isPublic = false
MaxBuilds == 2         \* LifeSpec: rebuild() calls per process
MaxMutations == 1      \* LifeSpec: index-set mutations in a run
FairPairs == 1         \* FairSpec: index pairs in all index sets
PrivGlobal == 3        \* PrivSpec: global indices 1..PrivGlobal
PrivPairs == 4         \* PrivSpec: index pairs in all index sets
PrivPrivate == 1       \* PrivSpec: index pairs with isPublic = false
TwicePairs == 3        \* TwiceSpec: index pairs in all index sets
MatchGlobal == 4       \* MatchSpec: global indices 1..MatchGlobal on both sides
MatchPrivate == 1      \* MatchSpec: local pairs with isPublic = false
ChangePairs == 4       \* ChangeSpec: index pairs in all index sets
LocalGlobal == 3       \* LocalSpec: global indices 1..LocalGlobal
LocalPairs == 4        \* LocalSpec: index pairs in all index sets
LocalPrivate == 1      \* LocalSpec: index pairs with isPublic = false

\* ------------------------------------------------------- program constants
commTag_ == 333        \* the tag of every message of the protocol
NumAttributes == 3     \* enum Attributes{owner, border, overlap}
HeaderInts == 3        \* sendTwo, sourcePublish, destPublish
NoSeqNo == -1          \* sourceSeqNo_, destSeqNo_ before the first build

VARIABLES
  procs,          \* MPI_Comm_size(comm_)
  ignorePublic,   \* the template argument of rebuild<ignorePublic>()
  twoSets,        \* twoSets[r]: &source_ != &dest_ on rank r
  isets,          \* isets[r] = <<source index set, destination index set>>
  sourceSeqNo_,   \* per rank
  destSeqNo_,     \* per rank
  remoteIndices_, \* per rank: peer rank -> [send, receive] (list addresses)
  copyLocal_,     \* per rank
  heap,           \* per rank: the RemoteIndexList objects allocated so far
  arrays,         \* per rank: arrays the last rebuild() got from new[] and has not deleted
  threw,          \* per rank: rebuild() was left by std::bad_alloc
  pc,             \* per rank: the MPI call the rank is blocked in, or "idle"
  loc,            \* per rank: the local variables of buildRemote
  link,           \* link[r]: the synchronous send of r to (r+1)%procs in flight
  reduce,         \* the MPI_Allreduce in progress
  nbuilt,         \* per rank: rebuild() calls that have returned
  built,          \* per rank: what each of them left in remoteIndices_
  mutated,        \* per rank: an index set changed since rebuild() was entered
  nmut,           \* index-set mutations so far
  sent,           \* per rank: the messages handed to MPI_Ssend in this rebuild
  rcvd            \* per rank: the messages MPI_Recv delivered in this rebuild

vars == <<procs, ignorePublic, twoSets, isets, sourceSeqNo_, destSeqNo_,
          remoteIndices_, copyLocal_, heap, arrays, threw, pc, loc, link, reduce,
          nbuilt, built, mutated, nmut, sent, rcvd>>

Ranks == 0 .. (procs - 1)
Globals == 1 .. MaxGlobal
Attributes == 0 .. (NumAttributes - 1)

\* --------------------------------------------------------------- helpers
Max(a, b) == IF a >= b THEN a ELSE b

RECURSIVE SetMax(_)
SetMax(S) == IF S = {} THEN 0
             ELSE LET x == CHOOSE y \in S : TRUE IN Max(x, SetMax(S \ {x}))

RECURSIVE SortedSeq(_)
\* the elements of a set of integers in ascending order
SortedSeq(S) == IF S = {} THEN <<>>
                ELSE LET m == CHOOSE x \in S : \A y \in S : x <= y
                     IN <<m>> \o SortedSeq(S \ {m})

Range(s) == { s[i] : i \in 1 .. Len(s) }

\* ------------------------------------------- ParallelLocalIndex, IndexPair
VALID == 0             \* LocalIndexState

\* static_cast<char>(x): the members attribute_, public_ and state_ are chars
ToChar(x) == ((x + 128) % 256) - 128

ParallelLocalIndex(local, attr, isPub) ==
  [localIndex_ |-> local, attribute_ |-> ToChar(attr),
   public_ |-> ToChar(IF isPub THEN 1 ELSE 0), state_ |-> ToChar(VALID)]

\* ParallelLocalIndex(): the parameterless constructor
DefaultLocalIndex ==
  [localIndex_ |-> 0, attribute_ |-> 0, public_ |-> ToChar(0),
   state_ |-> ToChar(VALID)]

attribute(li) == li.attribute_
isPublic(li) == li.public_ # 0

IndexPair(g, li) == [global_ |-> g, local_ |-> li]
DefaultPair == IndexPair(0, DefaultLocalIndex)

\* The MPI datatype of an index pair: the global index and, of the local
\* index, the attribute byte only.
PackPair(pair) == [g |-> pair.global_, a |-> pair.local_.attribute_]

\* a datatype that transmits the global index only
UnpackPair_GlobalOnly(cell, index) ==
  [global_ |-> cell.g, local_ |-> index.local_]

\* MPI_Unpack into an existing pair object
UnpackPair(cell, index) ==
  [global_ |-> cell.g, local_ |-> [index.local_ EXCEPT !.attribute_ = cell.a]]

\* ------------------------------------------------------------- index sets
\* An index set: its pairs in ascending order of the global index, and its
\* sequence number.
size(iset) == Len(iset.pairs)

RECURSIVE CountPublic(_)
CountPublic(ps) == IF ps = <<>> THEN 0
                   ELSE (IF isPublic(Head(ps).local_) THEN 1 ELSE 0)
                        + CountPublic(Tail(ps))

noPublic(iset) == CountPublic(iset.pairs)
seqNo(iset) == iset.seqNo

\* source_ and dest_ of rank r; address 1 is the first index set of the rank,
\* address 2 the second one
SourceAddr(r) == 1
DestAddr(r) == IF twoSets[r] THEN 2 ELSE 1
source_(r) == isets[r][SourceAddr(r)]
dest_(r) == isets[r][DestAddr(r)]

\* the index sets the runs start from
AttrOf(r, w, g) == (r + w + g) % NumAttributes

MakePairs(r, w, gs, priv) ==
  LET sorted == SortedSeq(gs)
  IN [i \in 1 .. Len(sorted) |->
        IndexPair(sorted[i],
                  ParallelLocalIndex(i - 1, AttrOf(r, w, sorted[i]),
                                     <<r, w, sorted[i]>> \notin priv))]

MakeSet(r, w, chosen, priv) ==
  [pairs |-> MakePairs(r, w, { s[3] : s \in { t \in chosen : t[1] = r /\ t[2] = w } }, priv),
   seqNo |-> 0]

SlotsUpTo(P, n) == (0 .. (P - 1)) \X {1, 2} \X (1 .. n)
Slots(P) == SlotsUpTo(P, MaxGlobal)

\* ------------------------------------------------ RemoteIndex and the lists
\* A pointer to an index pair of rank r: <<address of the index set, position>>
Deref(r, ptr) == isets[r][ptr[1]].pairs[ptr[2]]

RemoteIndex(attr, local) == [localIndex_ |-> local, attribute_ |-> ToChar(attr)]

\* the list filled from the front
push_front(list, x) == <<x>> \o list

\* SLList::push_back
push_back(list, x) == Append(list, x)

\* new RemoteIndexList(): the heap of a rank is the sequence of the lists it
\* has allocated; the address of a list is its position
NewList(h) == Append(h, [items |-> <<>>, frees |-> 0])

\* delete list
DeleteList(h, a) == [h EXCEPT ![a] = [items |-> <<>>, frees |-> @.frees + 1]]

EmptyMap == [q \in {} |-> 0]

\* std::map::insert: an existing key is left alone
MapInsert(m, q, v) ==
  IF q \in DOMAIN m THEN m
  ELSE [k \in (DOMAIN m) \cup {q} |-> IF k = q THEN v ELSE m[k]]

\* What a caller reads from the map m of rank r over the heap h: for every
\* peer the (global index, attribute) of the entries of the two lists.
ListView(r, list) ==
  [i \in 1 .. Len(list) |-> << Deref(r, list[i].localIndex_).global_, list[i].attribute_ >>]

PeersView(r, h, m) ==
  [q \in DOMAIN m |-> [send |-> ListView(r, h[m[q].send].items),
                       receive |-> ListView(r, h[m[q].receive].items)]]

\* ---------------------------------------------------------------- buffers
\* A buffer holds the three header integers and then maxPublish records.
\* Sizes and positions count one unit for an integer and one for a record.
IntSize == 1
PairSize == 1
Uninit == [g |-> -1, a |-> -1]       \* a record of memory never written
Overrun == [g |-> -2, a |-> -2]      \* a read past the end of the buffer

\* a buffer with room for one record less
NewBuffer_Short(maxPublish) ==
  [hdr |-> <<-1, -1, -1>>, recs |-> [i \in 1 .. (maxPublish - 1) |-> Uninit]]

NewBuffer(maxPublish) ==
  [hdr |-> <<-1, -1, -1>>, recs |-> [i \in 1 .. maxPublish |-> Uninit]]

CellAt(buf, position) ==
  LET i == ((position - HeaderInts * IntSize) \div PairSize) + 1
  IN IF i \in 1 .. Len(buf.recs) THEN buf.recs[i] ELSE Overrun

\* packEntries: the pairs of the index set at address w that are published,
\* in the order of the index set, as pointers (pairs[i++]) ...
RECURSIVE packEntriesFrom(_, _, _)
packEntriesFrom(r, w, i) ==
  IF i > Len(isets[r][w].pairs) THEN <<>>
  ELSE (IF ignorePublic \/ isPublic(isets[r][w].pairs[i].local_)
        THEN << <<w, i>> >> ELSE <<>>)
       \o packEntriesFrom(r, w, i + 1)

packEntries(r, w) == packEntriesFrom(r, w, 1)

\* ... and as packed records (MPI_Pack of each of them)
PackedRecords(r, ptrs) == [i \in 1 .. Len(ptrs) |-> PackPair(Deref(r, ptrs[i]))]

\* ---------------------------------------------------------- unpackIndices
\* The loop of unpackIndices; index is the record unpacked last, n_in the
\* number of records consumed, position the cursor into p_in.
RECURSIVE unpackLoop(_, _, _, _, _, _, _, _, _, _)
unpackLoop(r, remote, index, n_in, localIndex, position, remoteEntries, local, localEntries, p_in) ==
  IF ~(localIndex < localEntries)
  THEN [remote |-> remote, position |-> position]
  ELSE LET lg == Deref(r, local[localIndex + 1]).global_
       IN IF lg = index.global_
          THEN LET rem == push_back(remote,
                                    RemoteIndex(attribute(index.local_),
                                                local[localIndex + 1]))
               IN IF n_in + 1 < remoteEntries
                  THEN unpackLoop(r, rem, UnpackPair(CellAt(p_in, position), index),
                                  n_in + 1, localIndex + 1, position + PairSize,
                                  remoteEntries, local, localEntries, p_in)
                  ELSE [remote |-> rem, position |-> position]
          ELSE IF lg < index.global_
          THEN unpackLoop(r, remote, index, n_in, localIndex + 1, position,
                          remoteEntries, local, localEntries, p_in)
          ELSE IF n_in + 1 < remoteEntries
          THEN unpackLoop(r, remote, UnpackPair(CellAt(p_in, position), index),
                          n_in + 1, localIndex, position + PairSize,
                          remoteEntries, local, localEntries, p_in)
          ELSE [remote |-> remote, position |-> position]

unpackIndices(r, remote, remoteEntries, local, localEntries, p_in, position) ==
  IF remoteEntries = 0
  THEN [remote |-> remote, position |-> position]
  ELSE unpackLoop(r, remote, UnpackPair(CellAt(p_in, position), DefaultPair),
                  0, 0, position + PairSize,
                  remoteEntries, local, localEntries, p_in)

\* ------------------------------------------------------------ construction
NoLocals ==
  [proc |-> 0, position |-> 0, sendTwo |-> FALSE, sourcePublish |-> 0,
   destPublish |-> 0, maxPublish |-> 0, bufferSize |-> 0,
   sourcePairs |-> <<>>, destPairs |-> <<>>, buffer |-> <<>>]

NoMsg == [tag |-> 0, to |-> -1, hdr |-> <<>>, recs |-> <<>>, taken |-> FALSE]

EmptySet == [pairs |-> <<>>, seqNo |-> 0]

\* RemoteIndices(source, destination, comm) on every rank of a communicator
\* of at most MaxProcs processes, over index sets of maxPairs pairs in all
\* with global indices 1..maxGlobal, maxPriv of them not public.  ignorePublic is left FALSE where every pair
\* is public, as it makes no difference there.
InitFrom(maxGlobal, maxPairs, maxPriv) ==
  \E P \in 1 .. MaxProcs :
  \E chosen \in { c \in SUBSET SlotsUpTo(P, maxGlobal) : Cardinality(c) <= maxPairs } :
  \E priv \in { q \in SUBSET chosen : Cardinality(q) <= maxPriv } :
  \E two \in [0 .. (P - 1) -> BOOLEAN] :
  \E ip \in BOOLEAN :
    /\ ip => priv # {}
    /\ \A t \in chosen : t[2] = 2 => two[t[1]]
    /\ procs = P
    /\ ignorePublic = ip
    /\ twoSets = two
    /\ isets = [r \in 0 .. (P - 1) |->
                  << MakeSet(r, 1, chosen, priv),
                     IF two[r] THEN MakeSet(r, 2, chosen, priv) ELSE EmptySet >>]
    /\ sourceSeqNo_ = [r \in 0 .. (P - 1) |-> NoSeqNo]
    /\ destSeqNo_ = [r \in 0 .. (P - 1) |-> NoSeqNo]
    /\ remoteIndices_ = [r \in 0 .. (P - 1) |-> EmptyMap]
    /\ copyLocal_ = [r \in 0 .. (P - 1) |-> <<>>]
    /\ heap = [r \in 0 .. (P - 1) |-> <<>>]
    /\ arrays = [r \in 0 .. (P - 1) |-> 0]
    /\ threw = [r \in 0 .. (P - 1) |-> FALSE]
    /\ pc = [r \in 0 .. (P - 1) |-> "idle"]
    /\ loc = [r \in 0 .. (P - 1) |-> NoLocals]
    /\ link = [r \in 0 .. (P - 1) |-> NoMsg]
    /\ reduce = [r \in 0 .. (P - 1) |-> [val |-> -1, done |-> FALSE]]
    /\ nbuilt = [r \in 0 .. (P - 1) |-> 0]
    /\ built = [r \in 0 .. (P - 1) |-> <<>>]
    /\ mutated = [r \in 0 .. (P - 1) |-> FALSE]
    /\ nmut = 0
    /\ sent = [r \in 0 .. (P - 1) |-> <<>>]
    /\ rcvd = [r \in 0 .. (P - 1) |-> <<>>]

\* the same over the global indices 1..MaxGlobal
InitWith(maxPairs, maxPriv) == InitFrom(MaxGlobal, maxPairs, maxPriv)

\* ------------------------------------------------------------- buildRemote
\* The arrays buildRemote allocates, in this order: sourcePairs, destPairs
\* (if sendTwo), buffer, buffer[0], buffer[1]; and those it deletes at its
\* end: destPairs (if it is not sourcePairs), sourcePairs, buffer[0],
\* buffer[1].
NewArrays(sendTwo) == IF sendTwo THEN 5 ELSE 4
DeletedArrays(sendTwo) == IF sendTwo THEN 4 ELSE 3

\* MPI_Pack(&sendTwo, 1, MPI_INT, ...) reads an int where a bool is stored:
\* the bytes next to the bool are whatever the stack holds.
StackBytes == {0, 1}
BoolAsInt(b, hi) == (IF b THEN 1 ELSE 0) + 256 * hi

OutIdx(proc) == (1 - (proc % 2)) + 1     \* p_out = buffer[1-(proc%2)]
InIdx(proc) == (proc % 2) + 1            \* p_in = buffer[proc%2]

\* what MPI_Ssend(p_out, position, MPI_PACKED, (rank+1)%procs, commTag_, comm_)
\* of rank r transmits
Message(r, l) ==
  LET p_out == l.buffer[OutIdx(l.proc)]
      n == (l.position - HeaderInts * IntSize) \div PairSize
  IN [tag |-> commTag_, to |-> (r + 1) % procs, hdr |-> p_out.hdr,
      recs |-> SubSeq(p_out.recs, 1, n), taken |-> FALSE]

\* MPI_Recv(p_in, bufferSize, ...): the message overwrites the head of p_in
Received(l, msg) ==
  LET p_in == l.buffer[InIdx(l.proc)]
  IN [l EXCEPT !.buffer[InIdx(l.proc)] =
        [hdr |-> msg.hdr,
         recs |-> [i \in 1 .. Len(p_in.recs) |->
                     IF i <= Len(msg.recs) THEN msg.recs[i] ELSE p_in.recs[i]]]]

\* the records of p_in that the header announces and that were never written
UninitCells(l) ==
  LET p_in == l.buffer[InIdx(l.proc)]
  IN { i \in 1 .. Len(p_in.recs) :
         i <= p_in.hdr[2] + p_in.hdr[3] /\ p_in.recs[i] = Uninit }

JunkCells == [g : 0 .. (MaxGlobal + 1), a : Attributes]

\* lists that are kept whatever they hold
BothEmpty_Never(send, receive) == FALSE

\* if(send->empty() && receive->empty())
BothEmpty(send, receive) == send = <<>> /\ receive = <<>>

\* Lines 726-768: decode the header of p_in, build the lists of the rank the
\* buffer comes from and insert them.  fill gives the content of the memory
\* never written.  The result is the new locals, heap and map of rank r.
Unpacked(r, l, fill) ==
  LET raw == l.buffer[InIdx(l.proc)]
      p_in == [raw EXCEPT !.recs = [i \in 1 .. Len(raw.recs) |->
                                      IF i \in DOMAIN fill THEN fill[i] ELSE raw.recs[i]]]
      twoIndexSets == p_in.hdr[1]
      noReceive == p_in.hdr[2]
      noSend == p_in.hdr[3]
      remoteProc == (r + procs - l.proc) % procs
      h1 == NewList(heap[r])
      receive == Len(h1)
      u1 == unpackIndices(r, <<>>, noReceive, l.destPairs, l.destPublish,
                          p_in, HeaderInts * IntSize)
      separate == (twoIndexSets # 0) \/ l.sendTwo
      h2 == IF separate THEN NewList(h1) ELSE h1
      send == Len(h2)
      u2 == IF separate
            THEN unpackIndices(r, <<>>, noSend, l.sourcePairs, l.sourcePublish,
                               p_in, u1.position)
            ELSE u1
      h3 == [h2 EXCEPT ![receive].items = u1.remote, ![send].items = u2.remote]
      bothEmpty == BothEmpty(u2.remote, u1.remote)
      h4 == IF bothEmpty
            THEN (IF send = receive THEN DeleteList(h3, send)
                  ELSE DeleteList(DeleteList(h3, send), receive))
            ELSE h3
      m == IF bothEmpty THEN remoteIndices_[r]
           ELSE MapInsert(remoteIndices_[r], remoteProc,
                          [send |-> send, receive |-> receive])
      nread == (u2.position - HeaderInts * IntSize) \div PairSize
  IN [loc |-> [l EXCEPT !.position = u2.position,
                        !.buffer[InIdx(l.proc)] =
                           [raw EXCEPT !.recs = [i \in 1 .. Len(raw.recs) |->
                              IF i <= nread THEN p_in.recs[i] ELSE raw.recs[i]]]],
      heap |-> h4,
      map |-> m]

Wire(msg) == [hdr |-> msg.hdr, recs |-> msg.recs]

\* a rank that sends before it receives in every pass (the others receive
\* first): if(rank%2==0)
SendsFirst_All(r) == TRUE

SendsFirst(r) == r % 2 = 0

\* The head of a pass of the loop, up to the first blocking call: an even
\* rank enters MPI_Ssend, an odd rank enters MPI_Recv.
EnterHop(r, l, lk) ==
  IF SendsFirst(r)
  THEN /\ loc' = [loc EXCEPT ![r] = l]
       /\ pc' = [pc EXCEPT ![r] = "ssend"]
       /\ link' = [lk EXCEPT ![r] = Message(r, l)]
       /\ sent' = [sent EXCEPT ![r] = Append(@, Wire(Message(r, l)))]
       /\ UNCHANGED <<nbuilt, built>>
  ELSE /\ loc' = [loc EXCEPT ![r] = l]
       /\ pc' = [pc EXCEPT ![r] = "recv"]
       /\ link' = lk
       /\ UNCHANGED <<sent, nbuilt, built>>

\* the loop with one pass more: for(proc=1; proc<=procs; proc++)
LoopEnd_ExtraPass(r, l, lk) ==
  IF l.proc + 1 <= procs
  THEN EnterHop(r, [l EXCEPT !.proc = @ + 1], lk) /\ UNCHANGED arrays
  ELSE /\ loc' = [loc EXCEPT ![r] = NoLocals]
       /\ pc' = [pc EXCEPT ![r] = "idle"]
       /\ arrays' = [arrays EXCEPT ![r] = @ - DeletedArrays(l.sendTwo)]
       /\ link' = lk
       /\ nbuilt' = [nbuilt EXCEPT ![r] = @ + 1]
       /\ built' = [built EXCEPT ![r] =
                      Append(@, PeersView(r, heap'[r], remoteIndices_'[r]))]
       /\ UNCHANGED sent

\* The end of a pass: proc++, and after the last pass the arrays and the
\* buffers are deleted and buildRemote, then rebuild, returns (the heap and
\* the map of the rank are those the pass leaves).
LoopEnd(r, l, lk) ==
  IF l.proc + 1 < procs
  THEN EnterHop(r, [l EXCEPT !.proc = @ + 1], lk) /\ UNCHANGED arrays
  ELSE /\ loc' = [loc EXCEPT ![r] = NoLocals]
       /\ pc' = [pc EXCEPT ![r] = "idle"]
       /\ arrays' = [arrays EXCEPT ![r] = @ - DeletedArrays(l.sendTwo)]
       /\ link' = lk
       /\ nbuilt' = [nbuilt EXCEPT ![r] = @ + 1]
       /\ built' = [built EXCEPT ![r] =
                      Append(@, PeersView(r, heap'[r], remoteIndices_'[r]))]
       /\ UNCHANGED sent

\* a communicator that is never taken for a sequential one
Sequential_Never == FALSE

\* if(procs==1): nothing to do in sequential mode
Sequential == procs = 1

\* rebuild<ignorePublic>() is called on rank r: buildRemote runs up to
\* MPI_Allreduce (with one process it returns at once).
Rebuild(r) ==
  /\ pc[r] = "idle"
  /\ ~threw[r]
  /\ nbuilt[r] < MaxBuilds
  /\ arrays' = [arrays EXCEPT ![r] = 0]
  /\ remoteIndices_' = [remoteIndices_ EXCEPT ![r] = EmptyMap]
  /\ mutated' = [mutated EXCEPT ![r] = FALSE]
  /\ sent' = [sent EXCEPT ![r] = <<>>]
  /\ rcvd' = [rcvd EXCEPT ![r] = <<>>]
  /\ IF Sequential
     THEN /\ nbuilt' = [nbuilt EXCEPT ![r] = @ + 1]
          /\ built' = [built EXCEPT ![r] = Append(@, PeersView(r, heap[r], EmptyMap))]
          /\ UNCHANGED <<pc, loc, reduce>>
     ELSE LET sendTwo == SourceAddr(r) # DestAddr(r)
              sourcePublish == IF ignorePublic THEN size(source_(r))
                               ELSE noPublic(source_(r))
              destPublish == IF sendTwo
                             THEN (IF ignorePublic THEN size(dest_(r))
                                   ELSE noPublic(dest_(r)))
                             ELSE 0
          IN /\ loc' = [loc EXCEPT ![r] = [NoLocals EXCEPT
                                             !.sendTwo = sendTwo,
                                             !.sourcePublish = sourcePublish,
                                             !.destPublish = destPublish]]
             /\ reduce' = [reduce EXCEPT ![r].val = sourcePublish + destPublish]
             /\ pc' = [pc EXCEPT ![r] = "allreduce"]
             /\ UNCHANGED <<nbuilt, built>>
  /\ UNCHANGED <<procs, ignorePublic, twoSets, isets, sourceSeqNo_, destSeqNo_,
                 copyLocal_, heap, threw, link, nmut>>

\* MPI_Allreduce returns on rank r; the arrays and the two buffers are
\* allocated, the first pass packs the own message (proc==1) and the rank
\* blocks in its first send or receive.
AllreduceReturn(r) ==
  /\ pc[r] = "allreduce"
  /\ \A s \in Ranks : reduce[s].val >= 0
  /\ reduce' = IF \A s \in Ranks \ {r} : reduce[s].done
               THEN [s \in Ranks |-> [val |-> -1, done |-> FALSE]]
               ELSE [reduce EXCEPT ![r].done = TRUE]
  /\ \E hi \in StackBytes :
       LET l0 == loc[r]
           maxPublish == SetMax({ reduce[s].val : s \in Ranks })
           sourcePairs == packEntries(r, SourceAddr(r))
           destPairs == IF l0.sendTwo THEN packEntries(r, DestAddr(r))
                        ELSE sourcePairs
           packed == PackedRecords(r, sourcePairs)
                     \o (IF l0.sendTwo THEN PackedRecords(r, destPairs) ELSE <<>>)
           out == [hdr |-> <<BoolAsInt(l0.sendTwo, hi), l0.sourcePublish,
                             l0.destPublish>>,
                   recs |-> [i \in 1 .. maxPublish |->
                               IF i <= Len(packed) THEN packed[i] ELSE Uninit]]
           l1 == [l0 EXCEPT !.maxPublish = maxPublish,
                            !.bufferSize = maxPublish * PairSize + 3 * IntSize,
                            !.sourcePairs = sourcePairs,
                            !.destPairs = destPairs,
                            !.buffer = <<out, NewBuffer(maxPublish)>>,
                            !.position = HeaderInts * IntSize + Len(packed) * PairSize,
                            !.proc = 1]
       IN EnterHop(r, l1, link)
  /\ arrays' = [arrays EXCEPT ![r] = NewArrays(loc[r].sendTwo)]
  /\ UNCHANGED <<procs, ignorePublic, twoSets, isets, sourceSeqNo_, destSeqNo_,
                 remoteIndices_, copyLocal_, heap, threw, mutated, nmut, rcvd>>

\* MPI_Recv returns on rank r.  An even rank has sent before: it unpacks and
\* goes on to the next pass.  An odd rank enters MPI_Ssend.
RecvReturn(r) ==
  LET src == (r + procs - 1) % procs
  IN /\ pc[r] = "recv"
     /\ link[src].tag = commTag_
     /\ link[src].to = r
     /\ ~link[src].taken
     /\ LET l1 == Received(loc[r], link[src])
            lk == [link EXCEPT ![src].taken = TRUE]
        IN /\ rcvd' = [rcvd EXCEPT ![r] = Append(@, Wire(link[src]))]
           /\ IF SendsFirst(r)
              THEN \E fill \in [UninitCells(l1) -> JunkCells] :
                     LET u == Unpacked(r, l1, fill)
                     IN /\ heap' = [heap EXCEPT ![r] = u.heap]
                        /\ remoteIndices_' = [remoteIndices_ EXCEPT ![r] = u.map]
                        /\ LoopEnd(r, u.loc, lk)
              ELSE /\ loc' = [loc EXCEPT ![r] = l1]
                   /\ pc' = [pc EXCEPT ![r] = "ssend"]
                   /\ link' = [lk EXCEPT ![r] = Message(r, l1)]
                   /\ sent' = [sent EXCEPT ![r] = Append(@, Wire(Message(r, l1)))]
                   /\ UNCHANGED <<heap, remoteIndices_, arrays, nbuilt, built>>
     /\ UNCHANGED <<procs, ignorePublic, twoSets, isets, sourceSeqNo_,
                    destSeqNo_, copyLocal_, threw, reduce, mutated, nmut>>

\* a send that returns as soon as the message is handed over (MPI_Send with
\* buffering)
Delivered_AtOnce(r) == TRUE

\* MPI_Ssend is synchronous: it completes once the matching receive of the
\* successor has taken the message
Delivered(r) == link[r].taken

\* MPI_Ssend returns on rank r: the successor has received the message.  An
\* even rank enters MPI_Recv.  An odd rank has received before: it unpacks
\* and goes on to the next pass.
SsendReturn(r) ==
  /\ pc[r] = "ssend"
  /\ Delivered(r)
  /\ LET lk == [link EXCEPT ![r] = NoMsg]
     IN IF SendsFirst(r)
        THEN /\ pc' = [pc EXCEPT ![r] = "recv"]
             /\ link' = lk
             /\ UNCHANGED <<loc, heap, remoteIndices_, arrays, nbuilt, built, sent>>
        ELSE \E fill \in [UninitCells(loc[r]) -> JunkCells] :
               LET u == Unpacked(r, loc[r], fill)
               IN /\ heap' = [heap EXCEPT ![r] = u.heap]
                  /\ remoteIndices_' = [remoteIndices_ EXCEPT ![r] = u.map]
                  /\ LoopEnd(r, u.loc, lk)
  /\ UNCHANGED <<procs, ignorePublic, twoSets, isets, sourceSeqNo_, destSeqNo_,
                 copyLocal_, threw, reduce, mutated, nmut, rcvd>>

\* MPI_Allreduce returns on rank r and one of the new[] that follow throws
\* std::bad_alloc after k of them have succeeded.  Nothing in buildRemote or
\* rebuild catches it: the exception leaves rebuild() and reaches the caller.
AllocFails(r) ==
  /\ pc[r] = "allreduce"
  /\ \A s \in Ranks : reduce[s].val >= 0
  /\ reduce' = IF \A s \in Ranks \ {r} : reduce[s].done
               THEN [s \in Ranks |-> [val |-> -1, done |-> FALSE]]
               ELSE [reduce EXCEPT ![r].done = TRUE]
  /\ \E k \in 0 .. (NewArrays(loc[r].sendTwo) - 1) :
       arrays' = [arrays EXCEPT ![r] = k]
  /\ threw' = [threw EXCEPT ![r] = TRUE]
  /\ pc' = [pc EXCEPT ![r] = "idle"]
  /\ loc' = [loc EXCEPT ![r] = NoLocals]
  /\ UNCHANGED <<procs, ignorePublic, twoSets, isets, sourceSeqNo_, destSeqNo_,
                 remoteIndices_, copyLocal_, heap, link, nbuilt, built, mutated,
                 nmut, sent, rcvd>>

\* ---------------------------------------------------------------- isSynced
\* the recorded numbers compared with <= in place of ==
isSynced_NotNewer(r) ==
  sourceSeqNo_[r] <= seqNo(source_(r)) /\ destSeqNo_[r] <= seqNo(dest_(r))

isSynced(r) ==
  sourceSeqNo_[r] = seqNo(source_(r)) /\ destSeqNo_[r] = seqNo(dest_(r))

\* an isSynced() that records the sequence numbers it has compared
IsSynced_Records(r) ==
  /\ pc[r] = "idle"
  /\ sourceSeqNo_' = [sourceSeqNo_ EXCEPT ![r] = seqNo(source_(r))]
  /\ destSeqNo_' = [destSeqNo_ EXCEPT ![r] = seqNo(dest_(r))]
  /\ UNCHANGED <<procs, ignorePublic, twoSets, isets, remoteIndices_, copyLocal_,
                 heap, arrays, threw, pc, loc, link, reduce, nbuilt, built,
                 mutated, nmut, sent, rcvd>>

\* the call of isSynced() on rank r: it returns isSynced(r) and writes nothing
IsSynced(r) ==
  /\ pc[r] = "idle"
  /\ isSynced(r) \in BOOLEAN
  /\ UNCHANGED vars

\* ------------------------------------------------- the index sets change
\* The owner of the index sets of rank r removes the i-th pair of the index
\* set at address w; the sequence number of that index set increases.
\* (What the index sets are before the first build is the choice of Init.)
RemoveAt(s, i) == [j \in 1 .. (Len(s) - 1) |-> IF j < i THEN s[j] ELSE s[j + 1]]

Mutate(r) ==
  /\ pc[r] = "idle"
  /\ nbuilt[r] > 0
  /\ nmut < MaxMutations
  /\ \E w \in {SourceAddr(r), DestAddr(r)} :
     \E i \in 1 .. Len(isets[r][w].pairs) :
       isets' = [isets EXCEPT ![r][w] = [pairs |-> RemoveAt(@.pairs, i),
                                         seqNo |-> @.seqNo + 1]]
  /\ nmut' = nmut + 1
  /\ mutated' = [mutated EXCEPT ![r] = TRUE]
  /\ UNCHANGED <<procs, ignorePublic, twoSets, sourceSeqNo_, destSeqNo_,
                 remoteIndices_, copyLocal_, heap, arrays, threw, pc, loc, link,
                 reduce, nbuilt, built, sent, rcvd>>

\* the first rebuild() of rank r
FirstRebuild(r) == nbuilt[r] = 0 /\ Rebuild(r)

\* one collective rebuild after construction
Init == InitWith(MaxPairs, MaxPrivate)

Next ==
  \/ \E r \in Ranks : FirstRebuild(r)
  \/ \E r \in Ranks : AllreduceReturn(r)
  \/ \E r \in Ranks : RecvReturn(r)
  \/ \E r \in Ranks : SsendReturn(r)

Spec == Init /\ [][Next]_vars

\* any sequence of rebuilds, index-set changes and isSynced() calls
LifeInit == InitWith(LifePairs, LifePrivate)

LifeNext ==
  \/ \E r \in Ranks : Rebuild(r)
  \/ \E r \in Ranks : AllreduceReturn(r)
  \/ \E r \in Ranks : RecvReturn(r)
  \/ \E r \in Ranks : SsendReturn(r)
  \/ \E r \in Ranks : IsSynced(r)
  \/ \E r \in Ranks : Mutate(r)

LifeSpec == LifeInit /\ [][LifeNext]_vars

\* One collective rebuild under MPI's progress guarantee: a blocking call
\* that can return does return.  Whether a rank calls rebuild() at all is
\* left open.
FairInit == InitWith(FairPairs, 0)

Progress(r) ==
  /\ r \in Ranks
  /\ (AllreduceReturn(r) \/ RecvReturn(r) \/ SsendReturn(r))

FairSpec ==
  /\ FairInit
  /\ [][Next]_vars
  /\ \A r \in 0 .. (MaxProcs - 1) : WF_vars(Progress(r))

\* MaxBuilds collective rebuilds in a row over index sets nobody changes
TwiceInit == InitWith(TwicePairs, 0)

TwiceNext ==
  \/ \E r \in Ranks : Rebuild(r)
  \/ \E r \in Ranks : AllreduceReturn(r)
  \/ \E r \in Ranks : RecvReturn(r)
  \/ \E r \in Ranks : SsendReturn(r)

TwiceSpec == TwiceInit /\ [][TwiceNext]_vars

\* rebuilds in a row where an allocation of buildRemote may fail
AllocNext ==
  \/ \E r \in Ranks : Rebuild(r)
  \/ \E r \in Ranks : AllreduceReturn(r)
  \/ \E r \in Ranks : RecvReturn(r)
  \/ \E r \in Ranks : SsendReturn(r)
  \/ \E r \in Ranks : AllocFails(r)

AllocSpec == LifeInit /\ [][AllocNext]_vars

\* One collective rebuild, with ignorePublic false or true, where every rank
\* has distinct source and destination index sets and the pair with the
\* highest global index of one of the index sets is not public.
PrivInit ==
  /\ InitFrom(PrivGlobal, PrivPairs, PrivPrivate)
  /\ \A r \in Ranks : twoSets[r]
  /\ \E r \in Ranks : \E w \in {1, 2} : \E x \in Range(isets[r][w].pairs) :
       x.global_ = PrivGlobal /\ ~isPublic(x.local_)

PrivSpec == PrivInit /\ [][Next]_vars

\* unpackIndices on its own, called as line 743 calls it on one object:
\* p_in holds a message whose source records are any strictly ascending
\* stream over the global indices 1..MatchGlobal with any attributes, and the
\* local array holds the published pairs of any index set over the same
\* global indices, at most MatchPrivate of them not public.
MatchStream(S, f) ==
  LET sorted == SortedSeq(S)
  IN [i \in 1 .. Len(sorted) |-> [g |-> sorted[i], a |-> f[sorted[i]]]]

MatchInit ==
  \E S \in SUBSET (1 .. MatchGlobal) : \E f \in [S -> Attributes] :
  \E L \in SUBSET (1 .. MatchGlobal) :
  \E priv \in { q \in SUBSET L : Cardinality(q) <= MatchPrivate } :
    LET chosen == { <<0, 1, g>> : g \in L }
        hidden == { <<0, 1, g>> : g \in priv }
        stream == MatchStream(S, f)
    IN /\ procs = 1
       /\ ignorePublic = FALSE
       /\ twoSets = [r \in {0} |-> FALSE]
       /\ isets = [r \in {0} |-> << MakeSet(0, 1, chosen, hidden), EmptySet >>]
       /\ sourceSeqNo_ = [r \in {0} |-> NoSeqNo]
       /\ destSeqNo_ = [r \in {0} |-> NoSeqNo]
       /\ remoteIndices_ = [r \in {0} |-> EmptyMap]
       /\ copyLocal_ = [r \in {0} |-> <<>>]
       /\ heap = [r \in {0} |-> <<>>]
       /\ arrays = [r \in {0} |-> 0]
       /\ threw = [r \in {0} |-> FALSE]
       /\ pc = [r \in {0} |-> "unpack"]
       /\ loc = [r \in {0} |->
                  [NoLocals EXCEPT
                     !.proc = 1,
                     !.position = HeaderInts * IntSize,
                     !.maxPublish = Len(stream),
                     !.bufferSize = Len(stream) * PairSize + 3 * IntSize,
                     !.destPairs = packEntries(0, 1),
                     !.destPublish = Len(packEntries(0, 1)),
                     !.buffer = << NewBuffer(Len(stream)),
                                   [hdr |-> <<0, Len(stream), 0>>, recs |-> stream] >>]]
       /\ link = [r \in {0} |-> NoMsg]
       /\ reduce = [r \in {0} |-> [val |-> -1, done |-> FALSE]]
       /\ nbuilt = [r \in {0} |-> 0]
       /\ built = [r \in {0} |-> <<>>]
       /\ mutated = [r \in {0} |-> FALSE]
       /\ nmut = 0
       /\ sent = [r \in {0} |-> <<>>]
       /\ rcvd = [r \in {0} |-> <<>>]

\* receive = new RemoteIndexList(); unpackIndices(*receive, noReceive,
\* destPairs, destPublish, p_in, type, &position, bufferSize)
UnpackCall(r) ==
  /\ pc[r] = "unpack"
  /\ LET l == loc[r]
         p_in == l.buffer[InIdx(l.proc)]
         h == NewList(heap[r])
         u == unpackIndices(r, <<>>, p_in.hdr[2], l.destPairs, l.destPublish,
                            p_in, l.position)
     IN /\ heap' = [heap EXCEPT ![r] = [h EXCEPT ![Len(h)].items = u.remote]]
        /\ loc' = [loc EXCEPT ![r].position = u.position]
  /\ pc' = [pc EXCEPT ![r] = "unpacked"]
  /\ UNCHANGED <<procs, ignorePublic, twoSets, isets, sourceSeqNo_, destSeqNo_,
                 remoteIndices_, copyLocal_, arrays, threw, link, reduce, nbuilt,
                 built, mutated, nmut, sent, rcvd>>

MatchNext == \E r \in Ranks : UnpackCall(r)

MatchSpec == MatchInit /\ [][MatchNext]_vars

\* -------------------------------------------------------------- buildLocal
\* a list that keeps what it holds
clear_Keeps(list) == list

\* SLList::clear
clear(list) == <<>>

\* the loop of buildLocal over the positions sourceIndex and destIndex
RECURSIVE buildLocalLoop(_, _, _, _)
buildLocalLoop(r, sourceIndex, destIndex, copy) ==
  LET s == source_(r).pairs
      d == dest_(r).pairs
  IN IF ~(sourceIndex <= Len(s) /\ destIndex <= Len(d))
     THEN copy
     ELSE IF /\ d[destIndex].global_ = s[sourceIndex].global_
             /\ (ignorePublic \/ (isPublic(d[destIndex].local_)
                                     /\ isPublic(s[sourceIndex].local_)))
          THEN buildLocalLoop(r, sourceIndex + 1, destIndex + 1,
                              push_back(copy, << s[sourceIndex].local_.localIndex_,
                                                 d[destIndex].local_.localIndex_ >>))
          ELSE IF d[destIndex].global_ < s[sourceIndex].global_
          THEN buildLocalLoop(r, sourceIndex, destIndex + 1, copy)
          ELSE buildLocalLoop(r, sourceIndex + 1, destIndex, copy)

buildLocal(r) == buildLocalLoop(r, 1, 1, clear(copyLocal_[r]))

\* the call of buildLocal<ignorePublic>() on rank r
BuildLocal(r) ==
  /\ pc[r] = "idle"
  /\ copyLocal_' = [copyLocal_ EXCEPT ![r] = buildLocal(r)]
  /\ UNCHANGED <<procs, ignorePublic, twoSets, isets, sourceSeqNo_, destSeqNo_,
                 remoteIndices_, heap, arrays, threw, pc, loc, link, reduce,
                 nbuilt, built, mutated, nmut, sent, rcvd>>

\* buildLocal, rebuild and changes of the index sets in any order on one
\* process, with ignorePublic false or true
LocalInit == InitFrom(LocalGlobal, LocalPairs, LocalPrivate) /\ procs = 1

LocalNext ==
  \/ \E r \in Ranks : BuildLocal(r)
  \/ \E r \in Ranks : Rebuild(r)
  \/ \E r \in Ranks : Mutate(r)

LocalSpec == LocalInit /\ [][LocalNext]_vars

\* the index pairs the ranks of R hold
RECURSIVE PairsHeld(_)
PairsHeld(R) ==
  IF R = {} THEN 0
  ELSE LET r == CHOOSE x \in R : TRUE
       IN size(isets[r][1]) + size(isets[r][2]) + PairsHeld(R \ {r})

\* MaxBuilds collective rebuilds of MaxProcs processes with a change of an
\* index set in between; the first and the last rank hold ChangePairs index
\* pairs in all, the ranks between them hold none and only pass messages on
ChangeInit ==
  /\ InitWith(ChangePairs, 0)
  /\ procs = MaxProcs
  /\ PairsHeld(Ranks) = ChangePairs
  /\ PairsHeld(Ranks \ {0, procs - 1}) = 0

ChangeSpec == ChangeInit /\ [][LifeNext]_vars

\* ======================================================== the claims
\* rebuild() has returned on rank r and its index sets are as it saw them
Built(r) == pc[r] = "idle" /\ nbuilt[r] >= 1 /\ ~mutated[r]
AllBuilt == \A r \in Ranks : Built(r)

PairsOf(r, w) == Range(isets[r][w].pairs)
PublicGlobals(r, w) == { x.global_ : x \in { y \in PairsOf(r, w) : isPublic(y.local_) } }
PublishedGlobals(r, w) ==
  { x.global_ : x \in { y \in PairsOf(r, w) : ignorePublic \/ isPublic(y.local_) } }
AttributeAt(r, w, g) ==
  attribute((CHOOSE x \in PairsOf(r, w) : x.global_ = g).local_)

HasPeer(p, q) == q \in DOMAIN remoteIndices_[p]
SendList(p, q) == IF HasPeer(p, q) THEN heap[p][remoteIndices_[p][q].send].items ELSE <<>>
ReceiveList(p, q) == IF HasPeer(p, q) THEN heap[p][remoteIndices_[p][q].receive].items ELSE <<>>
GlobalOf(p, e) == Deref(p, e.localIndex_).global_
ListGlobals(p, list) == [i \in 1 .. Len(list) |-> GlobalOf(p, list[i])]
GlobalSet(p, list) == { GlobalOf(p, list[i]) : i \in 1 .. Len(list) }

\* C1: with source and destination the same index set on every rank and
\* ignorePublic = false, after a collective rebuild rank p has an entry for q
\* exactly if they share a public global index, and then the send list and
\* the receive list hold one entry for each shared index, with q's attribute.
C1_SameSetPeers ==
  (AllBuilt /\ ~ignorePublic /\ \A r \in Ranks : ~twoSets[r]) =>
    \A p \in Ranks : \A q \in Ranks \ {p} :
      LET shared == PublicGlobals(p, 1) \cap PublicGlobals(q, 1)
      IN IF shared = {} THEN ~HasPeer(p, q)
         ELSE /\ HasPeer(p, q)
              /\ ListGlobals(p, SendList(p, q)) = SortedSeq(shared)
              /\ ListGlobals(p, ReceiveList(p, q)) = SortedSeq(shared)
              /\ \A e \in Range(SendList(p, q)) \cup Range(ReceiveList(p, q)) :
                   e.attribute_ = AttributeAt(q, 1, GlobalOf(p, e))

\* C2: in one rebuild every process r receives, at pass k, the message of
\* the process k places before it in the ring exactly as that process packed
\* it (the first message it sent).
C2_EveryMessageArrivesWhole ==
  AllBuilt =>
    \A r \in Ranks : \A k \in 1 .. (procs - 1) :
      /\ Len(rcvd[r]) = procs - 1
      /\ rcvd[r][k] = sent[(r + procs - k) % procs][1]

AllEntered == \A r \in Ranks : pc[r] # "idle" \/ nbuilt[r] >= 1
AllReturned == \A r \in Ranks : pc[r] = "idle" /\ nbuilt[r] >= 1

\* C3: for every number of processes, once every rank has entered rebuild
\* every rank eventually returns from it: the ring of synchronous sends and
\* blocking receives does not deadlock.
C3_RebuildTerminates == AllEntered ~> AllReturned

C3_Witness == AllReturned /\ procs = 3

\* C4: right after rebuild has returned, with no change of the index sets
\* since, isSynced() returns true.
C4_SyncedAfterRebuild ==
  \A r \in Ranks : Built(r) => isSynced(r)

\* C5: after a rebuild, once an index set of the rank has changed isSynced()
\* returns false, until the next rebuild.
C5_StaleAfterMutation ==
  \A r \in Ranks : (pc[r] = "idle" /\ nbuilt[r] >= 1 /\ mutated[r]) => ~isSynced(r)

C5_Witness ==
  \E r \in Ranks : pc[r] = "idle" /\ nbuilt[r] >= 1 /\ mutated[r] /\ procs >= 2

\* C6: after a collective rebuild, p's send list for q holds global index g
\* exactly if q's receive list for p holds g, and each side stores the
\* attribute the other side attaches to g.
C6_SendMatchesReceive ==
  AllBuilt =>
    \A p \in Ranks : \A q \in Ranks \ {p} :
      /\ GlobalSet(p, SendList(p, q)) = GlobalSet(q, ReceiveList(q, p))
      /\ \A e \in Range(SendList(p, q)) :
           e.attribute_ = AttributeAt(q, DestAddr(q), GlobalOf(p, e))
      /\ \A e \in Range(ReceiveList(q, p)) :
           e.attribute_ = AttributeAt(p, SourceAddr(p), GlobalOf(q, e))

\* C7: after rebuild every entry of the receive list for q points to a local
\* published destination pair whose global index q published from its
\* source set, and every entry of the send list for q points to a local
\* published source pair whose global index q published from its
\* destination set.
C7_EntriesComeFromPeer ==
  AllBuilt =>
    \A p \in Ranks : \A q \in Ranks \ {p} :
      /\ \A e \in Range(ReceiveList(p, q)) :
           /\ e.localIndex_[1] = DestAddr(p)
           /\ GlobalOf(p, e) \in PublishedGlobals(p, DestAddr(p))
           /\ GlobalOf(p, e) \in PublishedGlobals(q, SourceAddr(q))
      /\ \A e \in Range(SendList(p, q)) :
           /\ e.localIndex_[1] = SourceAddr(p)
           /\ GlobalOf(p, e) \in PublishedGlobals(p, SourceAddr(p))
           /\ GlobalOf(p, e) \in PublishedGlobals(q, DestAddr(q))

Ascending(s) == \A i \in 1 .. (Len(s) - 1) : s[i] < s[i + 1]

\* C8: after rebuild, for every peer, the send list and the receive list are
\* in strictly ascending order of the global index of their local pair.
C8_ListsAscending ==
  \A p \in Ranks : Built(p) =>
    \A q \in DOMAIN remoteIndices_[p] :
      /\ Ascending(ListGlobals(p, SendList(p, q)))
      /\ Ascending(ListGlobals(p, ReceiveList(p, q)))

C8_Witness ==
  \E p \in Ranks : Built(p) /\ \E q \in DOMAIN remoteIndices_[p] :
     Len(ReceiveList(p, q)) >= 2 /\ procs = 3

\* C9: where the local source and destination are the same index set, every
\* entry of remoteIndices_ has one list as send list and as receive list.
C9_SameSetListsAlias ==
  \A p \in Ranks : ~twoSets[p] =>
    \A q \in DOMAIN remoteIndices_[p] :
      remoteIndices_[p][q].send = remoteIndices_[p][q].receive

\* C10: with distinct source and destination index sets on every rank, after
\* rebuild p's receive list for q holds one entry for each global index that
\* q published from its source and p from its destination, and p's send
\* list for q one entry for each global index that q published from its
\* destination and p from its source.
C10_TwoSetLists ==
  (AllBuilt /\ \A r \in Ranks : twoSets[r]) =>
    \A p \in Ranks : \A q \in Ranks \ {p} :
      /\ ListGlobals(p, ReceiveList(p, q)) =
           SortedSeq(PublishedGlobals(q, SourceAddr(q)) \cap PublishedGlobals(p, DestAddr(p)))
      /\ ListGlobals(p, SendList(p, q)) =
           SortedSeq(PublishedGlobals(q, DestAddr(q)) \cap PublishedGlobals(p, SourceAddr(p)))

PairAt(r, w, g) == CHOOSE x \in PairsOf(r, w) : x.global_ = g

\* the global indices that the source and the destination of rank r both
\* hold and that pass the publication filter
CopyGlobals(r) ==
  { g \in { x.global_ : x \in PairsOf(r, SourceAddr(r)) } :
      /\ \E y \in PairsOf(r, DestAddr(r)) : y.global_ = g
      /\ \/ ignorePublic
         \/ /\ isPublic(PairAt(r, SourceAddr(r), g).local_)
            /\ isPublic(PairAt(r, DestAddr(r), g).local_) }

\* C11: after rebuild on a rank whose source and destination are distinct
\* index sets, copyLocal_ lists, in ascending order of the global index, the
\* pair (source local index, destination local index) of every global index
\* that both sets hold and that passes the publication filter, and nothing
\* else.
C11_CopyLocalMatches ==
  \A r \in Ranks : (Built(r) /\ twoSets[r]) =>
    LET gs == SortedSeq(CopyGlobals(r))
    IN copyLocal_[r] = [i \in 1 .. Len(gs) |->
                          << PairAt(r, SourceAddr(r), gs[i]).local_,
                             PairAt(r, DestAddr(r), gs[i]).local_ >>]

\* the records rank r packs into its own message
OwnRecords(r) ==
  PackedRecords(r, packEntries(r, SourceAddr(r)))
  \o (IF twoSets[r] THEN PackedRecords(r, packEntries(r, DestAddr(r))) ELSE <<>>)

\* the global indices rank r holds, and those it holds in a public pair
HeldGlobals(r) == { x.global_ : x \in PairsOf(r, 1) \cup PairsOf(r, 2) }
AnyPublicGlobals(r) == PublicGlobals(r, 1) \cup PublicGlobals(r, 2)

AllListGlobals(p, q) ==
  GlobalSet(p, SendList(p, q)) \cup GlobalSet(p, ReceiveList(p, q))

\* C12: with ignorePublic = false the message a rank packs holds only its
\* public pairs, every entry of its lists points to a public local pair, and
\* after rebuild a global index that one of two ranks holds only in pairs
\* that are not public has no entry in the lists either rank keeps for the
\* other.  With ignorePublic = true the message holds every pair.
C12_PrivateStaysPrivate ==
  /\ \A r \in Ranks : sent[r] # <<>> =>
       /\ sent[r][1].recs = OwnRecords(r)
       /\ ignorePublic =>
            Len(sent[r][1].recs) = size(source_(r))
                                   + (IF twoSets[r] THEN size(dest_(r)) ELSE 0)
       /\ ~ignorePublic =>
            \A c \in Range(sent[r][1].recs) : c.g \in AnyPublicGlobals(r)
  /\ ~ignorePublic =>
       \A p \in Ranks : \A q \in DOMAIN remoteIndices_[p] :
         \A e \in Range(SendList(p, q)) \cup Range(ReceiveList(p, q)) :
           isPublic(Deref(p, e.localIndex_).local_)
  /\ ~ignorePublic =>
       \A p \in Ranks : \A q \in Ranks \ {p} :
         (Built(p) /\ Built(q)) =>
           \A g \in (HeldGlobals(p) \ AnyPublicGlobals(p))
                    \cup (HeldGlobals(q) \ AnyPublicGlobals(q)) :
             g \notin AllListGlobals(p, q) \cup AllListGlobals(q, p)

\* C13: when rebuild has returned twice on a rank, with the same ignorePublic
\* and no index set changed in between, the second call has left the same
\* peers as the first: the same peer ranks and, for each, the same sequences
\* of (global index, attribute) in the send and the receive list.
C13_RebuildTwiceSame ==
  \A r \in Ranks : (Len(built[r]) >= 2 /\ nmut = 0) => built[r][2] = built[r][1]

\* C14: with a single process rebuild sends nothing, receives nothing, never
\* blocks in an MPI call and leaves remoteIndices_ empty, at the first call
\* and at every later one.
C14_SingleProcess ==
  procs = 1 =>
    \A r \in Ranks :
      /\ pc[r] = "idle"
      /\ sent[r] = <<>> /\ rcvd[r] = <<>> /\ link[r] = NoMsg
      /\ remoteIndices_[r] = EmptyMap
      /\ \A k \in 1 .. Len(built[r]) : built[r][k] = EmptyMap

C14_Witness == procs = 1 /\ nbuilt[0] = MaxBuilds /\ size(source_(0)) > 0

\* no rank publishes a pair
NothingPublished ==
  \A r \in Ranks : packEntries(r, SourceAddr(r)) = <<>> /\ packEntries(r, DestAddr(r)) = <<>>

HeaderOnly(msg) == msg.recs = <<>> /\ msg.hdr[2] = 0 /\ msg.hdr[3] = 0

\* C15: when no rank publishes a pair, every message sent and received is a
\* header without records, a rank that has returned has sent and received
\* procs - 1 of them, remoteIndices_ stays empty on every rank, and once all
\* ranks have entered rebuild all of them return.
C15_EmptySetsComplete ==
  /\ [](NothingPublished =>
          \A r \in Ranks :
            /\ \A k \in 1 .. Len(sent[r]) : HeaderOnly(sent[r][k])
            /\ \A k \in 1 .. Len(rcvd[r]) : HeaderOnly(rcvd[r][k])
            /\ remoteIndices_[r] = EmptyMap
            /\ Built(r) => (Len(sent[r]) = procs - 1 /\ Len(rcvd[r]) = procs - 1))
  /\ ((NothingPublished /\ AllEntered) ~> AllReturned)

C15_Witness ==
  /\ NothingPublished /\ procs = MaxProcs
  /\ \A r \in Ranks : Built(r) /\ Len(rcvd[r]) = procs - 1 /\ remoteIndices_[r] = EmptyMap

\* C16: every entry of remoteIndices_ has a send list or a receive list that
\* is not empty: a peer whose two lists come out empty gets no entry.
C16_NoEmptyEntries ==
  \A p \in Ranks : \A q \in DOMAIN remoteIndices_[p] :
    SendList(p, q) # <<>> \/ ReceiveList(p, q) # <<>>

C16_Witness ==
  \E p \in Ranks :
    /\ Built(p) /\ procs = MaxProcs
    /\ Cardinality(DOMAIN remoteIndices_[p]) = 1

\* the addresses of the lists that remoteIndices_ of rank r refers to
Referenced(r) ==
  { remoteIndices_[r][q].send : q \in DOMAIN remoteIndices_[r] }
  \cup { remoteIndices_[r][q].receive : q \in DOMAIN remoteIndices_[r] }

\* C17: whatever rebuilds have run, every list a rank has allocated is either
\* referred to by remoteIndices_ and not freed, or freed exactly once: no list
\* is dropped without being freed and none is freed twice.
C17_ListsOwnedOrFreed ==
  \A r \in Ranks : \A a \in 1 .. Len(heap[r]) :
    \/ a \in Referenced(r) /\ heap[r][a].frees = 0
    \/ a \notin Referenced(r) /\ heap[r][a].frees = 1

\* an index pair as a rank may hold it: any public flag and any state
AnyPair(g, a, pub, st) ==
  IndexPair(g, [localIndex_ |-> 1, attribute_ |-> ToChar(a),
                public_ |-> ToChar(pub), state_ |-> ToChar(st)])

RoundTrip(pair) == UnpackPair(PackPair(pair), DefaultPair)

\* the pairs of rank q, of either index set
HeldPairs(q) == PairsOf(q, 1) \cup PairsOf(q, 2)

\* C18: an index pair that is packed and then unpacked into a fresh pair has
\* the global index and the attribute of the original, whatever its public
\* flag and state are, and the public flag, the state and the local index
\* of the receiver's default pair; and after rebuild the attribute of every
\* entry of the lists kept for peer q is the attribute q holds for the
\* global index of the entry.
C18_CodecRoundTrip ==
  /\ \A g \in Globals : \A a \in Attributes : \A pub \in {0, 1} : \A st \in {0, 1} :
       LET u == RoundTrip(AnyPair(g, a, pub, st))
       IN /\ u.global_ = g
          /\ attribute(u.local_) = a
          /\ u.local_.public_ = DefaultLocalIndex.public_
          /\ u.local_.state_ = DefaultLocalIndex.state_
          /\ u.local_.localIndex_ = DefaultLocalIndex.localIndex_
  /\ AllBuilt =>
       \A p \in Ranks : \A q \in DOMAIN remoteIndices_[p] :
         \A e \in Range(SendList(p, q)) \cup Range(ReceiveList(p, q)) :
           \E x \in HeldPairs(q) :
             x.global_ = GlobalOf(p, e) /\ attribute(x.local_) = e.attribute_

\* what remoteIndices_ of rank r held when rank r entered its last rebuild,
\* where no index set has changed
BeforeCall(r) == IF built[r] = <<>> THEN EmptyMap ELSE built[r][Len(built[r])]

\* C19: when an allocation of a buffer fails in rebuild, the failure reaches
\* the caller, no array this rebuild allocated is left undeleted, and
\* remoteIndices_ holds what it held before the call.
C19_AllocFailureIsClean ==
  \A r \in Ranks : threw[r] =>
    /\ pc[r] = "idle"
    /\ arrays[r] = 0
    /\ PeersView(r, heap[r], remoteIndices_[r]) = BeforeCall(r)

\* the number of pairs rank r publishes, and the number it holds
Published(r) == Len(OwnRecords(r))
Held(r) == size(source_(r)) + (IF twoSets[r] THEN size(dest_(r)) ELSE 0)

\* rank p publishes all its pairs, and there are some, and no other rank
\* publishes a pair
OnePublisher(p) ==
  /\ p \in Ranks /\ procs >= 2
  /\ Published(p) = Held(p) /\ Held(p) > 0
  /\ \A q \in Ranks \ {p} : Published(q) = 0

\* C20 as the specification states it: when one rank publishes all its pairs
\* and no other rank publishes any, after rebuild the send lists of the
\* publishing rank are empty and every other rank has entries in its receive
\* list for the publishing rank.
C20_OnePublisherReceived ==
  \A p \in Ranks : (AllBuilt /\ OnePublisher(p)) =>
    \A q \in Ranks \ {p} :
      SendList(p, q) = <<>> /\ ReceiveList(q, p) # <<>>

\* C20, amended: when one rank publishes all its pairs and no other rank
\* publishes any, after rebuild the send lists of the publishing rank are
\* empty and so are the receive lists of the other ranks: no rank has an
\* entry for any peer.
C20_OnePublisherNoEntries ==
  \A p \in Ranks : (AllBuilt /\ OnePublisher(p)) =>
    /\ \A q \in Ranks \ {p} : SendList(p, q) = <<>> /\ ReceiveList(q, p) = <<>>
    /\ \A r \in Ranks : remoteIndices_[r] = EmptyMap

C20_Witness ==
  \E p \in Ranks :
    /\ AllBuilt /\ OnePublisher(p) /\ procs = MaxProcs
    /\ Published(p) >= 2 /\ twoSets[p]

\* C21: a rank packs its own records at its first pass only, and the message
\* it sends at every later pass is the message it received in the pass
\* before, with the same header and the same records.
C21_ForwardsWhatItReceived ==
  \A r \in Ranks :
    /\ sent[r] # <<>> => sent[r][1].recs = OwnRecords(r)
    /\ \A k \in 2 .. Len(sent[r]) :
         k - 1 <= Len(rcvd[r]) /\ sent[r][k] = rcvd[r][k - 1]

\* the rank whose message rank r handles in pass k
Origin(r, k) == (r + procs - k) % procs

IsPrefix(s, t) == Len(s) <= Len(t) /\ \A i \in 1 .. Len(s) : s[i] = t[i]

\* the passes rank r has completed: all of them once it has returned
PassesDone(r) ==
  IF pc[r] = "idle" THEN (IF nbuilt[r] >= 1 /\ ~threw[r] THEN procs - 1 ELSE 0)
  ELSE IF pc[r] = "allreduce" THEN 0
  ELSE loc[r].proc - 1

\* C22: in pass k rank r receives what rank (r + procs - k) % procs packed,
\* and what it decodes is stored under that rank: the keys of remoteIndices_
\* are ranks of completed passes, never r itself, a rank that has returned
\* has handled procs - 1 messages, and every entry of the lists stored under
\* rank q is a record that q packed.
C22_DecodedBufferIsFromOrigin ==
  /\ \A r \in Ranks :
       /\ DOMAIN remoteIndices_[r] \subseteq { Origin(r, k) : k \in 1 .. PassesDone(r) }
       /\ r \notin DOMAIN remoteIndices_[r]
       /\ Built(r) => Len(rcvd[r]) = procs - 1
       /\ \A k \in 1 .. Len(rcvd[r]) :
            /\ sent[Origin(r, k)] # <<>>
            /\ rcvd[r][k].hdr = sent[Origin(r, k)][1].hdr
            /\ IsPrefix(rcvd[r][k].recs, sent[Origin(r, k)][1].recs)
  /\ AllBuilt =>
       \A p \in Ranks : \A q \in DOMAIN remoteIndices_[p] :
         \A e \in Range(SendList(p, q)) \cup Range(ReceiveList(p, q)) :
           \E c \in Range(sent[q][1].recs) :
             c.g = GlobalOf(p, e) /\ c.a = e.attribute_

\* the records of the message of rank r, its local array and the list filled
MatchRecords(r) == loc[r].buffer[InIdx(loc[r].proc)].recs
MatchLocal(r) == loc[r].destPairs
MatchList(r) == heap[r][Len(heap[r])].items
MatchCommon(r) ==
  { c.g : c \in Range(MatchRecords(r)) }
    \cap { Deref(r, ptr).global_ : ptr \in Range(MatchLocal(r)) }

\* C23: for a strictly ascending stream of remote records and a strictly
\* ascending array of local published pairs, unpackIndices appends one entry
\* for each global index found on both sides and none for any other, in
\* ascending order, each with the attribute of the remote record and a
\* pointer to the local pair of that global index; with no remote record or
\* no local pair it appends nothing.
C23_MatcherIntersects ==
  \A r \in Ranks : pc[r] = "unpacked" =>
    /\ ListGlobals(r, MatchList(r)) = SortedSeq(MatchCommon(r))
    /\ \A e \in Range(MatchList(r)) :
         /\ e.localIndex_ \in Range(MatchLocal(r))
         /\ \E c \in Range(MatchRecords(r)) :
              c.g = GlobalOf(r, e) /\ ToChar(c.a) = e.attribute_
    /\ (MatchRecords(r) = <<>> \/ MatchLocal(r) = <<>>) => MatchList(r) = <<>>

C23_Witness ==
  \E r \in Ranks :
    /\ pc[r] = "unpacked"
    /\ Len(MatchList(r)) >= 2
    /\ \E c \in Range(MatchRecords(r)) : c.g \notin MatchCommon(r)
    /\ \E ptr \in Range(MatchLocal(r)) : Deref(r, ptr).global_ \notin MatchCommon(r)

\* the pairs (local index in the source, local index in the destination) of
\* the global indices that both index sets of rank r hold and that pass the
\* publication filter, in ascending order of the global index
ExpectedCopy(r) ==
  LET sorted == SortedSeq(CopyGlobals(r))
  IN [i \in 1 .. Len(sorted) |->
        << PairAt(r, SourceAddr(r), sorted[i]).local_.localIndex_,
           PairAt(r, DestAddr(r), sorted[i]).local_.localIndex_ >>]

\* the global indices both index sets of rank r hold that fail the filter
FilteredGlobals(r) ==
  ({ x.global_ : x \in PairsOf(r, SourceAddr(r)) }
     \cap { y.global_ : y \in PairsOf(r, DestAddr(r)) }) \ CopyGlobals(r)

\* C24: whatever copyLocal_ held before, a call of buildLocal leaves in it
\* exactly the pairs (local index in the source, local index in the
\* destination) of the global indices held by both index sets for which
\* ignorePublic is true or both pairs are public, in ascending order of the
\* global index; a common global index that fails the filter gives no pair
\* and hides no later one.
C24_BuildLocalPairs ==
  [][\A r \in Ranks : BuildLocal(r) => copyLocal_'[r] = ExpectedCopy(r)]_vars

C24_Witness ==
  \E r \in Ranks :
    /\ twoSets[r]
    /\ copyLocal_[r] # <<>>
    /\ copyLocal_[r] = ExpectedCopy(r)
    /\ \E g \in FilteredGlobals(r) : \E h \in CopyGlobals(r) : g < h

\* the lists rank r allocates in the pass that handles rank q if the list is
\* shared exactly where neither of the two has two index sets
ListsFor(r, q) == IF ~twoSets[r] /\ ~twoSets[q] THEN 1 ELSE 2

RECURSIVE ListsUpTo(_, _)
ListsUpTo(r, k) == IF k = 0 THEN 0
                   ELSE ListsFor(r, Origin(r, k)) + ListsUpTo(r, k - 1)

\* C25: in every pass a rank allocates one list that serves as send list and
\* as receive list if neither it nor the rank the message comes from has two
\* index sets, and two lists otherwise; the entries of remoteIndices_ share
\* their list in the first case only.
C25_SharedListIffOneSet ==
  \A r \in Ranks :
    /\ Len(heap[r]) = ListsUpTo(r, PassesDone(r))
    /\ \A q \in DOMAIN remoteIndices_[r] :
         (remoteIndices_[r][q].send = remoteIndices_[r][q].receive)
           <=> (~twoSets[r] /\ ~twoSets[q])

Successor(r) == (r + 1) % procs
Predecessor(r) == (r + procs - 1) % procs

\* the sends of rank r that have returned
SendsCompleted(r) == Len(sent[r]) - (IF pc[r] = "ssend" THEN 1 ELSE 0)

\* C26: at every moment of a rebuild at most one message of rank r has been
\* sent and not yet received by its successor, the k-th send of a rank has
\* returned only if its successor has received k messages, and the k-th
\* message a rank receives is the k-th message its predecessor sent.
C26_SynchronousRing ==
  \A r \in Ranks :
    /\ Len(sent[r]) - Len(rcvd[Successor(r)]) \in {0, 1}
    /\ link[r] # NoMsg => pc[r] = "ssend"
    /\ SendsCompleted(r) <= Len(rcvd[Successor(r)])
    /\ \A k \in 1 .. Len(rcvd[r]) :
         k <= Len(sent[Predecessor(r)]) /\ rcvd[r][k] = sent[Predecessor(r)][k]

C26_Witness ==
  \E r \in Ranks :
    /\ procs = MaxProcs
    /\ Len(rcvd[r]) = 2
    /\ rcvd[r][1] # rcvd[r][2]
    /\ SendsCompleted(Predecessor(r)) = 2

\* rank r is inside the loop of buildRemote
InLoop(r) == pc[r] \in {"ssend", "recv"}

\* the length of a message: the header and its records
PackedLength(msg) == HeaderInts * IntSize + Len(msg.recs) * PairSize

\* C27: every message a rank packs or receives fits in its buffers: the
\* packed length, three header integers and sourcePublish + destPublish
\* records, is at most the buffer size computed from the maximum of the
\* publication counts of all ranks, which is the same on every rank, and a
\* rank holds exactly two buffers of that size for all passes.
C27_MessagesFitTwoBuffers ==
  \A r \in Ranks : InLoop(r) =>
    LET l == loc[r]
    IN /\ Len(l.buffer) = 2
       /\ \A b \in 1 .. 2 : Len(l.buffer[b].recs) * PairSize + 3 * IntSize = l.bufferSize
       /\ l.maxPublish >= l.sourcePublish + l.destPublish
       /\ \A q \in Ranks : InLoop(q) => loc[q].bufferSize = l.bufferSize
       /\ l.position <= l.bufferSize
       /\ sent[r] # <<>> =>
            PackedLength(sent[r][1]) =
              (3 + l.sourcePublish + l.destPublish) * IntSize
       /\ \A k \in 1 .. Len(sent[r]) : PackedLength(sent[r][k]) <= l.bufferSize
       /\ \A k \in 1 .. Len(rcvd[r]) : PackedLength(rcvd[r][k]) <= l.bufferSize

C27_Witness ==
  \E r \in Ranks :
    /\ procs = MaxProcs
    /\ InLoop(r)
    /\ loc[r].proc = 2
    /\ Len(rcvd[r]) = 2
    /\ PackedLength(rcvd[r][1]) = loc[r].bufferSize
    /\ loc[r].sourcePublish + loc[r].destPublish < loc[r].maxPublish

\* every rank has returned from a rebuild entered after the last change
RebuiltAfterChange ==
  nmut >= 1 /\ \A r \in Ranks : Built(r) /\ nbuilt[r] >= 2

\* entry e of a list of rank p for peer q is what q publishes now from its
\* index set at address w
DerivedFrom(p, q, w, e) ==
  /\ e.localIndex_[2] <= Len(isets[p][e.localIndex_[1]].pairs)
  /\ GlobalOf(p, e) \in PublishedGlobals(q, w)
  /\ e.attribute_ = AttributeAt(q, w, GlobalOf(p, e))

\* C28: after a rebuild that follows a change of the index sets,
\* remoteIndices_ holds only what the index sets of all ranks give now: every
\* entry of a list kept for peer q has a global index, and the attribute,
\* that q publishes now, and a peer that shares no published global index
\* with the rank has no entry.
C28_OnlyCurrentEntries ==
  RebuiltAfterChange =>
    \A p \in Ranks : \A q \in DOMAIN remoteIndices_[p] :
      /\ \A e \in Range(ReceiveList(p, q)) : DerivedFrom(p, q, SourceAddr(q), e)
      /\ \A e \in Range(SendList(p, q)) : DerivedFrom(p, q, DestAddr(q), e)
      /\ (PublishedGlobals(p, 1) \cup PublishedGlobals(p, 2))
           \cap (PublishedGlobals(q, 1) \cup PublishedGlobals(q, 2)) # {}

\* the cursor after the records the header announces as source records
PastSourceRecords(r) ==
  HeaderInts * IntSize + loc[r].buffer[InIdx(loc[r].proc)].hdr[2] * PairSize

\* C29: when unpackIndices returns from filling the receive list, the cursor
\* into the buffer stands behind all source records of the message, at the
\* first destination record, also when the local array is empty or runs out
\* before the last source record is read.
C29_CursorPastSourceRecords ==
  \A r \in Ranks : pc[r] = "unpacked" => loc[r].position = PastSourceRecords(r)

\* C30: a step of rebuild or isSynced leaves the index sets as they are,
\* pairs, attributes, flags, states and sequence numbers (they change only
\* where their owner changes them), and a step that is not part of a
\* rebuild, as a call of isSynced is, leaves remoteIndices_, the lists,
\* copyLocal_ and the recorded sequence numbers as they are.
C30_IndexSetsUntouched ==
  [][/\ nmut' = nmut => isets' = isets
     /\ (pc' = pc /\ nbuilt' = nbuilt /\ loc' = loc) =>
          UNCHANGED <<remoteIndices_, heap, copyLocal_, sourceSeqNo_, destSeqNo_>>]_vars

C30_Witness ==
  \E p \in Ranks :
    /\ Built(p)
    /\ nbuilt[p] = MaxBuilds
    /\ DOMAIN remoteIndices_[p] # {}
    /\ seqNo(source_(p)) = 0 /\ seqNo(dest_(p)) = 0

====
